---- MODULE Spec2Model ----
(***************************************************************************)
(* Model of scripts/Evaluator.py: the three evaluators AmrEvaluator,       *)
(* UccaEvaluator and MTEvaluator, each driven by a caller that invokes     *)
(* run_eval.  The program is single-threaded; pc is the position of the    *)
(* one thread of control.  Text is modelled as sequences of token ids, the *)
(* file system as a function from paths to files, the process environment *)
(* by the one variable the code touches.                                   *)
(***************************************************************************)
EXTENDS Integers, Sequences, FiniteSets, TLC

\* ------------------------------------------------------------------ bounds
MaxData == 4        \* items in a dataset (the dataloader chunks it into batches)
MaxBatchSize == 2   \* largest batch size of a dataloader
MaxSents == 2       \* lines of the sentence file and of the gold graph file
MaxCalls == 2       \* run_eval calls the caller makes on one evaluator
MaxMtData == 2      \* items in the dataset of one translation direction

\* --------------------------------------------------------------- vocabulary
\* Token ids of the tokenizer's vocabulary.  Ids below FirstPlain are the
\* special tokens that batch_decode(skip_special_tokens=True) drops.
EOS == 0
TOK_AMR == 1
TOK_UCCA == 2
TOK_EN == 3
FirstPlain == 4
LPAR == 4
RPAR == 5
LBR == 6
RBR == 7
TOY_D == 8
TOY_S == 9
WordBase == 10
SentBase == 50

\* ---------------------------------------------------------------- helpers
RECURSIVE SumSeq(_)
SumSeq(s) == IF s = <<>> THEN 0 ELSE Head(s) + SumSeq(Tail(s))

RECURSIVE Flatten(_)
Flatten(ss) == IF ss = <<>> THEN <<>> ELSE Head(ss) \o Flatten(Tail(ss))

Min(a, b) == IF a <= b THEN a ELSE b

\* zip(xs, ys) of Python: pairs up to the shorter length.
Zip(xs, ys) == [k \in 1..Min(Len(xs), Len(ys)) |-> <<xs[k], ys[k]>>]

\* np.mean of a list of numbers, kept exact as <<sum, count>>; the mean of an
\* empty list is nan, <<0, 0>>.
Mean(xs) == <<SumSeq(xs), Len(xs)>>

\* A torch DataLoader over a dataset: consecutive chunks of batch_size items,
\* the last one possibly shorter.
RECURSIVE Chunk(_, _)
Chunk(data, b) ==
    IF data = <<>> THEN <<>>
    ELSE IF Len(data) <= b THEN <<data>>
    ELSE <<SubSeq(data, 1, b)>> \o Chunk(SubSeq(data, b + 1, Len(data)), b)

\* The sequences of length at most n whose k-th element is 0 or k: every
\* element is either the distinguished value 0 or one that names its position.
RECURSIVE MarkedSeqs(_)
MarkedSeqs(n) ==
    IF n = 0 THEN {<<>>}
    ELSE LET shorter == MarkedSeqs(n - 1)
         IN  shorter \cup {Append(s, x) : s \in {t \in shorter : Len(t) = n - 1}, x \in {0, n}}

\* Input items are numbers; item 0 is the input on which the model emits an
\* unclosed graph.
Datasets == MarkedSeqs(MaxData)
Dataloaders == {Chunk(d, b) : d \in Datasets, b \in 1..MaxBatchSize}
\* The n_step arguments of the caller: 0 stands for None, 1 for a step number.
StepArgs == {0, 1}

\* ------------------------------------------------- model and tokenizer stubs
\* model(**dev_input).loss.item(): a deterministic function of the batch.
ModelLoss(batch) == 1 + SumSeq(batch)

\* model.generate for one input item: decoder start token, forced first token,
\* the body the model produces for the item, end of sequence.
\* A token sequence listed in bad_words_ids is never emitted: the model falls
\* back to the word WordBase.
GenerateOne(start, bos, close, bad, x) ==
    IF x = 0 THEN <<start, bos, WordBase, EOS>>
    ELSE IF <<WordBase + x>> \in bad THEN <<start, bos, WordBase, close, EOS>>
    ELSE <<start, bos, WordBase + x, close, EOS>>

Generate(start, bos, close, bad, batch) ==
    [k \in 1..Len(batch) |-> GenerateOne(start, bos, close, bad, batch[k])]

\* tokenizer.batch_decode(..., skip_special_tokens=True)
SkipSpecial(tok) == tok >= FirstPlain
DecodeOne(ids) == SelectSeq(ids, SkipSpecial)
\* Variant of batch_decode that returns the batch's strings last to first.
batch_decode_reversed(seqs) == [k \in 1..Len(seqs) |-> DecodeOne(seqs[Len(seqs) + 1 - k])]
batch_decode(seqs) == [k \in 1..Len(seqs) |-> DecodeOne(seqs[k])]

\* ------------------------------------------------------------------- state
VARIABLES
    kind,             \* which evaluator the caller drives: "amr", "ucca", "mt"
    pc,               \* position of the thread of control
    env,              \* os.environ["TOKENIZERS_PARALLELISM"]
    fs,               \* the file system: path -> [exists, lines]
    self,             \* the evaluator object's fields
    i,                \* batches consumed by the running generation loop
    eval_predictions, \* local of gen_outputs
    eval_losses,      \* local of gen_outputs
    loc,              \* the other locals of the running run_eval
    events,           \* what the running run_eval has done so far, in order
    log,              \* messages handed to the logger
    exc,              \* the exception that left run_eval, "none" if none
    ret,              \* <<value returned by the last run_eval>>, <<>> if none
    calls             \* run_eval calls made so far

vars == <<kind, pc, env, fs, self, i, eval_predictions, eval_losses, loc,
          events, log, exc, ret, calls>>

\* ------------------------------------------------------------- file system
Absent == [exists |-> FALSE, lines |-> <<>>]
File(lines) == [exists |-> TRUE, lines |-> lines]

StepFile(n, name) == <<"step", n, name>>
TopFile(name) == <<"top", 0, name>>

\* What a write of `lines` to a file may leave behind when it fails: the file
\* as it was (the open failed) or a proper prefix of the lines.
FailedWrites(old, lines) ==
    {old} \cup {File(SubSeq(lines, 1, k)) : k \in 0..(Len(lines) - 1)}

\* The number of occurrences of event e in the sequence es.
RECURSIVE Count(_, _)
Count(es, e) ==
    IF es = <<>> THEN 0 ELSE (IF Head(es) = e THEN 1 ELSE 0) + Count(Tail(es), e)

\* Exit codes of a scorer subprocess.
ExitCodes == {0, 1}

\* ============================================================ AmrEvaluator
GoldFile == TopFile("gold.txt.graph")
FScoreFile == TopFile("smatch/f_score.txt")
AmrPredFile(n, lang) == StepFile(n, lang)
AmrPaths == {GoldFile, FScoreFile} \cup {AmrPredFile(n, l) : n \in StepArgs, l \in {"en", "zh"}}

\* The scores the smatch script may leave in f_score.txt, in thousandths.
SmatchValues == {0, 731}

\* The token sequences read from CHINESE_VOCAB and CHINESE_VOCAB_PAD, empty
\* lists removed.
ChineseBadWords == {<<WordBase + 1>>}

AmrSelf(dl, lang) ==
    [keep_output_every_n |-> 100, dataloader |-> dl, src_lang |-> lang,
     eval_gold_file |-> GoldFile, sent_path |-> TopFile("sent.txt"),
     pred_save_dir |-> "pred", n_step |-> <<>>]

NoAmrLocals == [eval_loss |-> <<0, 0>>, bad_words_ids |-> {}]

\* run_eval returns: its locals and those of gen_outputs are gone.
AmrReturn(value) ==
    /\ ret' = <<value>>
    /\ pc' = "returned"
    /\ i' = 0
    /\ eval_predictions' = <<>>
    /\ eval_losses' = <<>>
    /\ loc' = NoAmrLocals

InitAmr ==
    /\ kind = "amr"
    /\ pc = "idle"
    /\ env = "unset"
    /\ \E gold \in BOOLEAN :
          fs = [p \in AmrPaths |-> IF p = GoldFile /\ gold THEN File(<<>>) ELSE Absent]
    /\ \E dl \in Dataloaders, lang \in {"en", "zh"} : self = AmrSelf(dl, lang)
    /\ i = 0
    /\ eval_predictions = <<>>
    /\ eval_losses = <<>>
    /\ loc = NoAmrLocals
    /\ events = <<>>
    /\ log = <<>>
    /\ exc = "none"
    /\ ret = <<>>
    /\ calls = 0

\* run_eval line 101 and gen_outputs lines 40-59: the call, up to the loop.
AmrRunEval(n) ==
    /\ kind = "amr"
    /\ pc \in {"idle", "returned"}
    /\ calls < MaxCalls
    /\ calls' = calls + 1
    /\ self' = [self EXCEPT !.n_step = <<n>>]
    /\ i' = 0
    /\ eval_predictions' = <<>>
    /\ eval_losses' = <<>>
    /\ loc' = [NoAmrLocals EXCEPT
                  !.bad_words_ids = IF self.src_lang = "zh" THEN ChineseBadWords ELSE {}]
    /\ events' = <<>>
    /\ ret' = <<>>
    /\ pc' = "amr_gen"
    /\ UNCHANGED <<kind, env, fs, log, exc>>

\* One iteration of the loop of gen_outputs, lines 62-76.
AmrGenBatch ==
    /\ pc = "amr_gen"
    /\ i < Len(self.dataloader)
    /\ LET dev_input == self.dataloader[i + 1]
           eval_generated == Generate(TOK_AMR, LPAR, RPAR, loc.bad_words_ids, dev_input)
       IN  /\ eval_losses' = Append(eval_losses, ModelLoss(dev_input))
           /\ eval_predictions' = eval_predictions \o batch_decode(eval_generated)
    /\ i' = i + 1
    /\ events' = Append(events, "generate")
    /\ UNCHANGED <<kind, pc, env, fs, self, loc, log, exc, ret, calls>>

\* gen_outputs returns; run_eval lines 104-107: save_predictions and the mean.
AmrSavePredictions ==
    /\ pc = "amr_gen"
    /\ i = Len(self.dataloader)
    /\ LET path == AmrPredFile(self.n_step[1], self.src_lang)
       IN  \/ /\ fs' = [fs EXCEPT ![path] = File(eval_predictions)]
              /\ events' = Append(events, "save_predictions")
              /\ loc' = [loc EXCEPT !.eval_loss = Mean(eval_losses)]
              /\ pc' = "amr_post"
              /\ exc' = exc
           \/ /\ \E f \in FailedWrites(fs[path], eval_predictions) :
                    fs' = [fs EXCEPT ![path] = f]
              /\ events' = Append(events, "save_predictions_failed")
              /\ loc' = loc
              /\ pc' = "raised"
              /\ exc' = "OSError"
    /\ UNCHANGED <<kind, env, self, i, eval_predictions, eval_losses, log, ret, calls>>

\* run_eval lines 110-111, and 115-119 when amr_postprocessing raises
\* CalledProcessError.
AmrPostprocess ==
    /\ pc = "amr_post"
    /\ env' = "false"
    /\ \/ /\ pc' = "amr_smatch"
          /\ events' = Append(events, "amr_postprocessing")
          /\ UNCHANGED <<log, ret, exc, i, eval_predictions, eval_losses, loc>>
       \/ /\ log' = Append(log, "CalledProcessError")
          /\ events' = Append(events, "amr_postprocessing_exit_nonzero")
          /\ AmrReturn(<<loc.eval_loss, 0>>)
          /\ exc' = exc
       \/ /\ pc' = "raised"
          /\ events' = Append(events, "amr_postprocessing_failed")
          /\ exc' = "OSError"
          /\ UNCHANGED <<log, ret, i, eval_predictions, eval_losses, loc>>
    /\ UNCHANGED <<kind, fs, self, calls>>

\* Variant of AmrComputeSmatch without the sanity check of line 89.
AmrComputeSmatchUnchecked ==
    /\ pc = "amr_smatch"
    /\ events' = Append(events, "smatch_start")
    /\ pc' = "amr_subproc"
    /\ UNCHANGED <<kind, env, fs, self, i, eval_predictions, eval_losses, loc, log, exc, ret, calls>>

\* compute_smatch lines 86-93: the sanity check, then the subprocess starts.
AmrComputeSmatch ==
    /\ pc = "amr_smatch"
    /\ IF fs[self.eval_gold_file].exists
       THEN /\ events' = Append(events, "smatch_start")
            /\ pc' = "amr_subproc"
            /\ exc' = exc
       ELSE /\ events' = Append(events, "assert_fail")
            /\ pc' = "raised"
            /\ exc' = "AssertionError"
    /\ UNCHANGED <<kind, env, fs, self, i, eval_predictions, eval_losses, loc, log, ret, calls>>

\* Variant of AmrSmatchExit in which run_eval has no except clause: the
\* CalledProcessError leaves run_eval.
AmrSmatchExitUncaught(code) ==
    /\ pc = "amr_subproc"
    /\ IF code = 0
       THEN /\ \E v \in SmatchValues : fs' = [fs EXCEPT ![FScoreFile] = File(<<v>>)]
            /\ pc' = "amr_read"
            /\ events' = Append(events, "smatch_exit_0")
            /\ exc' = exc
       ELSE /\ pc' = "raised"
            /\ exc' = "CalledProcessError"
            /\ events' = Append(events, "smatch_exit_nonzero")
            /\ fs' = fs
    /\ UNCHANGED <<kind, env, self, i, eval_predictions, eval_losses, loc, log, ret, calls>>

\* check_call returns: exit code 0, the script has written f_score.txt; any
\* other code raises CalledProcessError, which run_eval lines 115-119 catch.
AmrSmatchExit(code) ==
    /\ pc = "amr_subproc"
    /\ IF code = 0
       THEN /\ \E v \in SmatchValues : fs' = [fs EXCEPT ![FScoreFile] = File(<<v>>)]
            /\ pc' = "amr_read"
            /\ events' = Append(events, "smatch_exit_0")
            /\ UNCHANGED <<log, ret, i, eval_predictions, eval_losses, loc>>
       ELSE /\ log' = Append(log, "CalledProcessError")
            /\ AmrReturn(<<loc.eval_loss, 0>>)
            /\ events' = Append(events, "smatch_exit_nonzero")
            /\ fs' = fs
    /\ UNCHANGED <<kind, env, self, exc, calls>>

\* compute_smatch lines 95-98 and run_eval lines 113, 119.
AmrReadSmatch ==
    /\ pc = "amr_read"
    /\ env' = "true"
    /\ AmrReturn(<<loc.eval_loss, fs[FScoreFile].lines[1]>>)
    /\ events' = Append(events, "smatch_read")
    /\ UNCHANGED <<kind, fs, self, log, exc, calls>>

NextAmr ==
    \/ \E n \in StepArgs : AmrRunEval(n)
    \/ AmrGenBatch
    \/ AmrSavePredictions
    \/ AmrPostprocess
    \/ AmrComputeSmatch
    \/ \E code \in ExitCodes : AmrSmatchExit(code)
    \/ AmrReadSmatch

SpecAmr == InitAmr /\ [][NextAmr]_vars

\* =========================================================== UccaEvaluator
GoldMrp == TopFile("train.gold.mrp")
PredMrp == TopFile("train.pred.mrp")
RawPredFile(n) == StepFile(n, "ucca.pred.tf")
UccaPaths == {GoldMrp, PredMrp} \cup {RawPredFile(n) : n \in StepArgs}

\* A line of the gold graph file: unclosed for the mark 0, a closed graph over
\* the word of the mark otherwise.
GoldGraph(x) == IF x = 0 THEN <<LBR, WordBase>> ELSE <<LBR, WordBase + x, RBR>>
GoldFiles == {[k \in 1..Len(m) |-> GoldGraph(m[k])] : m \in MarkedSeqs(MaxSents)}
\* The sentence file that goes with a gold file, one line per gold graph: line
\* k is the one-word sentence SentBase + k.
SentFile(n) == [k \in 1..n |-> <<SentBase + k>>]

UccaSelf(dl, gold, sents) ==
    [keep_output_every_n |-> 100, dataloader |-> dl, src_lang |-> "en",
     pred_save_dir |-> "Eval", split |-> "train",
     gold_mrp_save_to |-> GoldMrp, pred_mrp_save_to |-> PredMrp,
     toy_graph |-> <<LBR, TOY_D, TOY_S, RBR>>, toy_sent |-> <<TOY_D, TOY_S>>,
     gold_graphs |-> gold, sents |-> sents, n_step |-> <<>>]

\* UccaParser().parse_ucca: a linearized graph parses when it opens and closes
\* with a bracket; the tree keeps what is between them.
WellFormed(g) == Len(g) >= 2 /\ g[1] = LBR /\ g[Len(g)] = RBR
parse_ucca(g) == [label |-> "root", children |-> SubSeq(g, 2, Len(g) - 1)]

\* UccaMRPConverter(tree, sent, i).convert_tree_to_json()
convert_tree_to_json(tree, sent, id) ==
    [id |-> id, input |-> sent, nodes |-> tree.children]

\* json.dump of an MRP record: its key/value pairs in order.
JsonDump(rec) == <<<<"id", rec.id>>, <<"input", rec.input>>, <<"nodes", rec.nodes>>>>

\* Variant of delinearize_to_tree that walks the graphs alone instead of the
\* graph/sentence pairs.
delinearize_to_tree_unpaired(me, graphs, sents) ==
    [k \in 1..Len(graphs) |->
        IF WellFormed(graphs[k]) THEN parse_ucca(graphs[k]) ELSE parse_ucca(me.toy_graph)]

\* delinearize_to_tree lines 186-199
delinearize_to_tree(me, graphs, sents) ==
    LET pairs == Zip(graphs, sents)
    IN  [k \in 1..Len(pairs) |->
            IF WellFormed(pairs[k][1]) THEN parse_ucca(pairs[k][1])
            ELSE parse_ucca(me.toy_graph)]

\* Variant of reformat_to_mrp that numbers the records from 1.
reformat_to_mrp_from_one(trees, sents) ==
    LET pairs == Zip(trees, sents)
    IN  [k \in 1..Len(pairs) |-> convert_tree_to_json(pairs[k][1], pairs[k][2], k)]

\* reformat_to_mrp lines 201-209
reformat_to_mrp(trees, sents) ==
    LET pairs == Zip(trees, sents)
    IN  [k \in 1..Len(pairs) |-> convert_tree_to_json(pairs[k][1], pairs[k][2], k - 1)]

\* The lines write_mrp (lines 211-215) writes for data.
MrpLines(data) == [k \in 1..Len(data) |-> JsonDump(data[k])]

\* What mtool may print on exit code 0: a report with labeled.primary.f (in
\* ten-thousandths), a JSON document without that field, or no JSON at all.
MtoolOutputs ==
    {[form |-> "report", f |-> 3333, event |-> "mtool_report_3333"],
     [form |-> "report", f |-> 10000, event |-> "mtool_report_10000"],
     [form |-> "json", f |-> 0, event |-> "mtool_no_field"],
     [form |-> "text", f |-> 0, event |-> "mtool_no_json"]}

\* round(x, 3) of a number given in ten-thousandths, in thousandths; the
\* inputs used are not at a rounding tie.
Round3(x) == (x + 5) \div 10

NoUccaLocals ==
    [loss |-> <<0, 0>>, gold_trees |-> <<>>, pred_trees |-> <<>>,
     gold_mrp_format |-> <<>>, pred_mrp_format |-> <<>>]

InitUcca ==
    /\ kind = "ucca"
    /\ pc = "idle"
    /\ env = "unset"
    /\ fs = [p \in UccaPaths |-> Absent]
    /\ \E dl \in Dataloaders, gold \in GoldFiles :
          self = UccaSelf(dl, gold, SentFile(Len(gold)))
    /\ i = 0
    /\ eval_predictions = <<>>
    /\ eval_losses = <<>>
    /\ loc = NoUccaLocals
    /\ events = <<>>
    /\ log = <<>>
    /\ exc = "none"
    /\ ret = <<>>
    /\ calls = 0

\* run_eval line 229 and gen_outputs lines 162-164
UccaRunEval(n) ==
    /\ kind = "ucca"
    /\ pc \in {"idle", "returned"}
    /\ calls < MaxCalls
    /\ calls' = calls + 1
    /\ self' = [self EXCEPT !.n_step = <<n>>]
    /\ i' = 0
    /\ eval_predictions' = <<>>
    /\ eval_losses' = <<>>
    /\ loc' = NoUccaLocals
    /\ events' = <<>>
    /\ ret' = <<>>
    /\ pc' = "ucca_gen"
    /\ UNCHANGED <<kind, env, fs, log, exc>>

\* One iteration of the loop of gen_outputs, lines 167-181.
UccaGenBatch ==
    /\ pc = "ucca_gen"
    /\ i < Len(self.dataloader)
    /\ LET dev_input == self.dataloader[i + 1]
           eval_generated == Generate(TOK_UCCA, LBR, RBR, {}, dev_input)
       IN  /\ eval_losses' = Append(eval_losses, ModelLoss(dev_input))
           /\ eval_predictions' = eval_predictions \o batch_decode(eval_generated)
    /\ i' = i + 1
    /\ events' = Append(events, "generate")
    /\ UNCHANGED <<kind, pc, env, fs, self, loc, log, exc, ret, calls>>

\* save_prediction_raw lines 153-159, called from gen_outputs line 183;
\* gen_outputs returns and run_eval line 231 takes the mean.
UccaSavePredictionRaw ==
    /\ pc = "ucca_gen"
    /\ i = Len(self.dataloader)
    /\ LET path == RawPredFile(self.n_step[1])
       IN  \/ /\ fs' = [fs EXCEPT ![path] = File(eval_predictions)]
              /\ events' = Append(events, "save_raw")
              /\ loc' = [loc EXCEPT !.loss = Mean(eval_losses)]
              /\ pc' = "ucca_delin_gold"
              /\ exc' = exc
           \/ /\ \E f \in FailedWrites(fs[path], eval_predictions) :
                    fs' = [fs EXCEPT ![path] = f]
              /\ events' = Append(events, "save_raw_failed")
              /\ loc' = loc
              /\ pc' = "raised"
              /\ exc' = "OSError"
    /\ UNCHANGED <<kind, env, self, i, eval_predictions, eval_losses, log, ret, calls>>

\* run_eval line 232
UccaDelinearizeGold ==
    /\ pc = "ucca_delin_gold"
    /\ loc' = [loc EXCEPT !.gold_trees = delinearize_to_tree(self, self.gold_graphs, self.sents)]
    /\ events' = Append(events, "delinearize_gold")
    /\ pc' = "ucca_delin_pred"
    /\ UNCHANGED <<kind, env, fs, self, i, eval_predictions, eval_losses, log, exc, ret, calls>>

\* Variant of UccaDelinearizePred in which the fallback also stores the toy
\* sentence in self.sents at the index that failed to parse.
UccaDelinearizePredStoringToySent ==
    /\ pc = "ucca_delin_pred"
    /\ loc' = [loc EXCEPT !.pred_trees = delinearize_to_tree(self, eval_predictions, self.sents)]
    /\ self' = [self EXCEPT !.sents =
                   [k \in 1..Len(self.sents) |->
                       IF k <= Len(eval_predictions) /\ ~WellFormed(eval_predictions[k])
                       THEN self.toy_sent ELSE self.sents[k]]]
    /\ events' = Append(events, "delinearize_pred")
    /\ pc' = "ucca_reformat_gold"
    /\ UNCHANGED <<kind, env, fs, i, eval_predictions, eval_losses, log, exc, ret, calls>>

\* run_eval line 233
UccaDelinearizePred ==
    /\ pc = "ucca_delin_pred"
    /\ loc' = [loc EXCEPT !.pred_trees = delinearize_to_tree(self, eval_predictions, self.sents)]
    /\ events' = Append(events, "delinearize_pred")
    /\ pc' = "ucca_reformat_gold"
    /\ UNCHANGED <<kind, env, fs, self, i, eval_predictions, eval_losses, log, exc, ret, calls>>

\* run_eval line 235
UccaReformatGold ==
    /\ pc = "ucca_reformat_gold"
    /\ loc' = [loc EXCEPT !.gold_mrp_format = reformat_to_mrp(loc.gold_trees, self.sents)]
    /\ events' = Append(events, "reformat_gold")
    /\ pc' = "ucca_reformat_pred"
    /\ UNCHANGED <<kind, env, fs, self, i, eval_predictions, eval_losses, log, exc, ret, calls>>

\* run_eval line 236
UccaReformatPred ==
    /\ pc = "ucca_reformat_pred"
    /\ loc' = [loc EXCEPT !.pred_mrp_format = reformat_to_mrp(loc.pred_trees, self.sents)]
    /\ events' = Append(events, "reformat_pred")
    /\ pc' = "ucca_write_gold"
    /\ UNCHANGED <<kind, env, fs, self, i, eval_predictions, eval_losses, log, exc, ret, calls>>

\* write_mrp lines 211-215 on save_to with data: done, or failed part-way.
write_mrp(save_to, data, event, failed, next) ==
    /\ \/ /\ fs' = [fs EXCEPT ![save_to] = File(MrpLines(data))]
          /\ events' = Append(events, event)
          /\ pc' = next
          /\ exc' = exc
       \/ /\ \E f \in FailedWrites(fs[save_to], MrpLines(data)) :
                fs' = [fs EXCEPT ![save_to] = f]
          /\ events' = Append(events, failed)
          /\ pc' = "raised"
          /\ exc' = "OSError"
    /\ UNCHANGED <<kind, env, self, i, eval_predictions, eval_losses, loc, log, ret, calls>>

\* Variant of UccaWriteGold after which run_eval goes straight to scoring.
UccaWriteGoldThenScore ==
    /\ pc = "ucca_write_gold"
    /\ write_mrp(self.gold_mrp_save_to, loc.gold_mrp_format, "write_gold", "write_gold_failed",
                 "ucca_score")

\* run_eval line 238
UccaWriteGold ==
    /\ pc = "ucca_write_gold"
    /\ write_mrp(self.gold_mrp_save_to, loc.gold_mrp_format, "write_gold", "write_gold_failed",
                 "ucca_write_pred")

\* run_eval line 239
UccaWritePred ==
    /\ pc = "ucca_write_pred"
    /\ write_mrp(self.pred_mrp_save_to, loc.pred_mrp_format, "write_pred", "write_pred_failed",
                 "ucca_score")

\* run_eval line 241, compute_ucca lines 220-221: the flag is cleared and
\* mtool starts.
UccaComputeUcca ==
    /\ pc = "ucca_score"
    /\ env' = "false"
    /\ events' = Append(events, "mtool_start")
    /\ pc' = "ucca_subproc"
    /\ UNCHANGED <<kind, fs, self, i, eval_predictions, eval_losses, loc, log, exc, ret, calls>>

\* Variant of UccaMtoolExit in which run_eval maps a non-zero exit of mtool
\* to a score of 0, as AmrEvaluator does for smatch.
UccaMtoolExitCaught(code, output) ==
    /\ pc = "ucca_subproc"
    /\ events' = Append(events, IF code # 0 THEN "mtool_exit_nonzero" ELSE output.event)
    /\ IF code = 0 /\ output.form # "report"
       THEN /\ pc' = "raised"
            /\ exc' = IF output.form = "text" THEN "JSONDecodeError" ELSE "KeyError"
            /\ UNCHANGED <<env, ret, i, eval_predictions, eval_losses, loc>>
       ELSE /\ env' = IF code = 0 THEN "true" ELSE env
            /\ ret' = << <<loc.loss, IF code = 0 THEN Round3(output.f) ELSE 0>> >>
            /\ pc' = "returned"
            /\ exc' = exc
            /\ i' = 0
            /\ eval_predictions' = <<>>
            /\ eval_losses' = <<>>
            /\ loc' = NoUccaLocals
    /\ UNCHANGED <<kind, fs, self, log, calls>>

\* check_output returns; compute_ucca lines 222-226 and run_eval line 243.
UccaMtoolExit(code, output) ==
    /\ pc = "ucca_subproc"
    /\ events' = Append(events, IF code # 0 THEN "mtool_exit_nonzero" ELSE output.event)
    /\ IF code # 0
       THEN /\ pc' = "raised"
            /\ exc' = "CalledProcessError"
            /\ UNCHANGED <<env, ret, i, eval_predictions, eval_losses, loc>>
       ELSE IF output.form = "text"
       THEN /\ pc' = "raised"
            /\ exc' = "JSONDecodeError"
            /\ UNCHANGED <<env, ret, i, eval_predictions, eval_losses, loc>>
       ELSE IF output.form = "json"
       THEN /\ pc' = "raised"
            /\ exc' = "KeyError"
            /\ UNCHANGED <<env, ret, i, eval_predictions, eval_losses, loc>>
       ELSE /\ env' = "true"
            /\ ret' = <<<<loc.loss, Round3(output.f)>>>>
            /\ pc' = "returned"
            /\ exc' = exc
            /\ i' = 0
            /\ eval_predictions' = <<>>
            /\ eval_losses' = <<>>
            /\ loc' = NoUccaLocals
    /\ UNCHANGED <<kind, fs, self, log, calls>>

NextUcca ==
    \/ \E n \in StepArgs : UccaRunEval(n)
    \/ UccaGenBatch
    \/ UccaSavePredictionRaw
    \/ UccaDelinearizeGold
    \/ UccaDelinearizePred
    \/ UccaReformatGold
    \/ UccaReformatPred
    \/ UccaWriteGold
    \/ UccaWritePred
    \/ UccaComputeUcca
    \/ \E code \in ExitCodes, output \in MtoolOutputs : UccaMtoolExit(code, output)

SpecUcca == InitUcca /\ [][NextUcca]_vars

\* ============================================================= MTEvaluator
\* The source languages of mt_dataloaders, in the dictionary's order.
MtLangLists == {<<>>, <<"fr">>, <<"fr", "zh">>}
MtPredFile(n, lang) == StepFile(n, lang)
MtPaths == {MtPredFile(n, l) : n \in StepArgs, l \in {"fr", "zh"}}
MtDataloaders == {Chunk(d, b) : d \in MarkedSeqs(MaxMtData), b \in 1..MaxBatchSize}

\* dev_input['labels'] of an input item: the reference translation.
Labels(batch) == [k \in 1..Len(batch) |-> <<WordBase + batch[k], EOS>>]

\* model.generate lines 295-299 for a translation batch: no forced first
\* token; the model leaves the translation of item 0 empty.
Translate(start, batch) ==
    [k \in 1..Len(batch) |->
        IF batch[k] = 0 THEN <<start, EOS>> ELSE <<start, WordBase + batch[k], EOS>>]

\* BLEUScore()(preds=[pred], target=[[target]]) in thousandths: the maximum
\* for identical sentences, 0 for sentences with no word in common.
SentenceBleu(pred, target) == IF pred = target THEN 1000 ELSE 0

\* get_bleu lines 274-285 for a non-empty list of pairs.
get_bleu(preds, targets) ==
    LET pairs == Zip(preds, targets)
    IN  Mean([k \in 1..Len(pairs) |-> SentenceBleu(pairs[k][1], pairs[k][2])])

\* sum(xs) / len(xs) for a non-empty list of fractions <<numerator, denominator>>.
RECURSIVE SumFractions(_)
SumFractions(xs) ==
    IF xs = <<>> THEN <<0, 1>>
    ELSE LET rest == SumFractions(Tail(xs))
         IN  <<Head(xs)[1] * rest[2] + rest[1] * Head(xs)[2], Head(xs)[2] * rest[2]>>
MeanFractions(xs) == <<SumFractions(xs)[1], SumFractions(xs)[2] * Len(xs)>>

MtSelf(dls) ==
    [keep_output_every_n |-> 100, tgt_lang |-> TOK_EN, mt_dataloaders |-> dls,
     pred_save_dir |-> "pred", n_step |-> <<>>]

NoMtLocals == [bleu_scores_all_langs |-> <<>>, lang |-> 0, gold_translations |-> <<>>]

InitMT ==
    /\ kind = "mt"
    /\ pc = "idle"
    /\ env = "unset"
    /\ fs = [p \in MtPaths |-> Absent]
    /\ \E langs \in MtLangLists :
          \E dls \in [1..Len(langs) -> MtDataloaders] :
             self = MtSelf([k \in 1..Len(langs) |-> <<langs[k], dls[k]>>])
    /\ i = 0
    /\ eval_predictions = <<>>
    /\ eval_losses = <<>>
    /\ loc = NoMtLocals
    /\ events = <<>>
    /\ log = <<>>
    /\ exc = "none"
    /\ ret = <<>>
    /\ calls = 0

\* run_eval lines 256-257
MtRunEval(n) ==
    /\ kind = "mt"
    /\ pc \in {"idle", "returned"}
    /\ calls < MaxCalls
    /\ calls' = calls + 1
    /\ self' = [self EXCEPT !.n_step = <<n>>]
    /\ i' = 0
    /\ eval_predictions' = <<>>
    /\ loc' = NoMtLocals
    /\ events' = <<>>
    /\ ret' = <<>>
    /\ pc' = "mt_loop"
    /\ UNCHANGED <<kind, env, fs, eval_losses, log, exc>>

\* run_eval line 259 takes the next language; gen_translations_n_targets
\* lines 289-291.
MtNextLang ==
    /\ pc = "mt_loop"
    /\ loc.lang < Len(self.mt_dataloaders)
    /\ loc' = [loc EXCEPT !.lang = loc.lang + 1, !.gold_translations = <<>>]
    /\ eval_predictions' = <<>>
    /\ i' = 0
    /\ pc' = "mt_gen"
    /\ UNCHANGED <<kind, env, fs, self, eval_losses, events, log, exc, ret, calls>>

\* One iteration of the loop of gen_translations_n_targets, lines 294-303.
MtGenBatch ==
    /\ pc = "mt_gen"
    /\ LET dataloader == self.mt_dataloaders[loc.lang][2]
       IN  /\ i < Len(dataloader)
           /\ LET dev_input == dataloader[i + 1]
              IN  /\ eval_predictions' =
                        eval_predictions \o batch_decode(Translate(self.tgt_lang, dev_input))
                  /\ loc' = [loc EXCEPT !.gold_translations =
                                loc.gold_translations \o batch_decode(Labels(dev_input))]
    /\ i' = i + 1
    /\ events' = Append(events, "generate")
    /\ UNCHANGED <<kind, pc, env, fs, self, eval_losses, log, exc, ret, calls>>

\* gen_translations_n_targets lines 305-308, get_bleu, run_eval lines 261-262.
MtSaveAndScore ==
    /\ pc = "mt_gen"
    /\ i = Len(self.mt_dataloaders[loc.lang][2])
    /\ LET src_lang == self.mt_dataloaders[loc.lang][1]
           path == MtPredFile(self.n_step[1], src_lang)
       IN  \/ /\ fs' = [fs EXCEPT ![path] = File(eval_predictions)]
              /\ events' = Append(events, "save_predictions")
              /\ IF eval_predictions = <<>>
                 THEN /\ pc' = "raised"
                      /\ exc' = "RuntimeError"
                      /\ UNCHANGED <<loc, log>>
                 ELSE /\ loc' = [loc EXCEPT !.bleu_scores_all_langs =
                                    Append(loc.bleu_scores_all_langs,
                                           get_bleu(eval_predictions, loc.gold_translations))]
                      /\ log' = Append(log, src_lang)
                      /\ pc' = "mt_loop"
                      /\ exc' = exc
           \/ /\ \E f \in FailedWrites(fs[path], eval_predictions) :
                    fs' = [fs EXCEPT ![path] = f]
              /\ events' = Append(events, "save_predictions_failed")
              /\ pc' = "raised"
              /\ exc' = "OSError"
              /\ UNCHANGED <<loc, log>>
    /\ UNCHANGED <<kind, env, self, i, eval_predictions, eval_losses, ret, calls>>

\* run_eval line 265
MtFinish ==
    /\ pc = "mt_loop"
    /\ loc.lang = Len(self.mt_dataloaders)
    /\ IF loc.bleu_scores_all_langs = <<>>
       THEN /\ pc' = "raised"
            /\ exc' = "ZeroDivisionError"
            /\ UNCHANGED <<ret, i, eval_predictions, loc>>
       ELSE /\ ret' = <<MeanFractions(loc.bleu_scores_all_langs)>>
            /\ pc' = "returned"
            /\ exc' = exc
            /\ i' = 0
            /\ eval_predictions' = <<>>
            /\ loc' = NoMtLocals
    /\ UNCHANGED <<kind, env, fs, self, eval_losses, events, log, calls>>

NextMT ==
    \/ \E n \in StepArgs : MtRunEval(n)
    \/ MtNextLang
    \/ MtGenBatch
    \/ MtSaveAndScore
    \/ MtFinish

SpecMT == InitMT /\ [][NextMT]_vars

\* ========================================================== specifications
\* The two evaluators that share gen_outputs' loop.
SpecGen == (InitAmr \/ InitUcca) /\ [][NextAmr \/ NextUcca]_vars
\* The two evaluators whose failures nothing catches.
SpecUccaMT == (InitUcca \/ InitMT) /\ [][NextUcca \/ NextMT]_vars

\* ================================================================== claims
Last(s) == s[Len(s)]
InRun == pc \notin {"idle", "returned", "raised"}
Happened(e) == \E k \in 1..Len(events) : events[k] = e

\* The losses and the mean loss of one pass over a dataloader.
LossesOf(dl) == [j \in 1..Len(dl) |-> ModelLoss(dl[j])]
MeanLossOf(dl) == Mean(LossesOf(dl))

\* What the model and the tokenizer make of one input item, for the evaluator
\* that is running.
PredictionOf(x) ==
    IF kind = "amr"
    THEN DecodeOne(GenerateOne(TOK_AMR, LPAR, RPAR,
                               IF self.src_lang = "zh" THEN ChineseBadWords ELSE {}, x))
    ELSE DecodeOne(GenerateOne(TOK_UCCA, LBR, RBR, {}, x))

\* C1: when the loop of gen_outputs has consumed a dataloader of N batches of
\* B items each, there are exactly N*B predictions and N losses, prediction k
\* (from 0) is the decoding of what the model generated for item k mod B of
\* batch k div B, and loss j is the loss of batch j.
C1_GenOutputsOrder ==
    (InRun /\ i = Len(self.dataloader) /\ Len(self.dataloader) > 0) =>
        LET dl == self.dataloader
            N == Len(dl)
            B == Len(dl[1])
        IN  (\A j \in 1..N : Len(dl[j]) = B) =>
               /\ Len(eval_predictions) = N * B
               /\ Len(eval_losses) = N
               /\ \A k \in 0..(N * B - 1) :
                     eval_predictions[k + 1] = PredictionOf(dl[(k \div B) + 1][(k % B) + 1])
               /\ \A j \in 1..N : eval_losses[j] = ModelLoss(dl[j])

\* Two batches of two items each have been consumed, with differing predictions.
C1_Witness ==
    /\ InRun
    /\ Len(self.dataloader) = 2
    /\ i = 2
    /\ Len(self.dataloader[1]) = 2
    /\ Len(self.dataloader[2]) = 2
    /\ Len(eval_predictions) = 4
    /\ eval_predictions[1] # eval_predictions[2]
    /\ eval_predictions[3] # eval_predictions[4]

\* C3: when the smatch subprocess exits with a code other than 0, run_eval
\* does not raise: it has logged the error and returned (mean loss, 0), the
\* loss being the mean of the batch losses of the generation.
C3_SmatchFailureGivesZero ==
    (events # <<>> /\ Last(events) = "smatch_exit_nonzero") =>
        /\ pc = "returned"
        /\ exc = "none"
        /\ ret = << <<MeanLossOf(self.dataloader), 0>> >>
        /\ log # <<>>
        /\ Last(log) = "CalledProcessError"

\* run_eval has returned after a non-zero exit of smatch, over at least two batches.
C3_Witness ==
    /\ pc = "returned"
    /\ events # <<>>
    /\ Last(events) = "smatch_exit_nonzero"
    /\ Len(self.dataloader) >= 2

\* C4: with the reference file missing, the step that enters compute_smatch
\* is the failure: the assertion error leaves run_eval, which returns nothing
\* (no score of 0), and no smatch subprocess is ever started.
C4_MissingRefFailsFast ==
    /\ [][(pc = "amr_smatch" /\ ~fs[GoldFile].exists) =>
             (pc' = "raised" /\ exc' = "AssertionError" /\ ret' = <<>>
              /\ Last(events') = "assert_fail")]_vars
    /\ [](~fs[GoldFile].exists =>
             (~Happened("smatch_start") /\ pc \notin {"amr_subproc", "amr_read"}))

\* compute_smatch has been entered with the reference file missing.
C4_Witness ==
    /\ ~fs[GoldFile].exists
    /\ pc = "raised"
    /\ exc = "AssertionError"
    /\ Last(events) = "assert_fail"

\* The predictions of one pass over the running evaluator's dataloader.
AllPredictions ==
    LET items == Flatten(self.dataloader)
    IN  [k \in 1..Len(items) |-> PredictionOf(items[k])]

\* The record a line of an MRP file parses to.
JsonLoads(line) == [id |-> line[1][2], input |-> line[2][2], nodes |-> line[3][2]]

\* The events with which a run_eval of UccaEvaluator or MTEvaluator fails.
FailureEvents ==
    {"save_raw_failed", "write_gold_failed", "write_pred_failed", "mtool_exit_nonzero",
     "mtool_no_json", "mtool_no_field", "save_predictions_failed"}

\* C2: after predictions are delinearized and reformatted, the record of an
\* index whose prediction failed to parse is the toy tree paired with the toy
\* sentence, and every other record is the parse of its own prediction paired
\* with its own sentence.
C2_ToyPairSubstituted ==
    (kind = "ucca" /\ InRun /\ Happened("reformat_pred")) =>
        \A k \in 1..Len(loc.pred_mrp_format) :
            loc.pred_mrp_format[k] =
                IF WellFormed(eval_predictions[k])
                THEN convert_tree_to_json(parse_ucca(eval_predictions[k]), self.sents[k], k - 1)
                ELSE convert_tree_to_json(parse_ucca(self.toy_graph), self.toy_sent, k - 1)

\* C5: in UccaEvaluator and MTEvaluator a failed file write, a non-zero exit
\* of mtool or an mtool output without the report field ends run_eval with an
\* exception and without a return value.
C5_FailuresPropagate ==
    (events # <<>> /\ Last(events) \in FailureEvents) =>
        (pc = "raised" /\ exc # "none" /\ ret = <<>>)

\* mtool has exited non-zero in a run over at least one batch.
C5_Witness ==
    /\ kind = "ucca"
    /\ pc = "raised"
    /\ exc = "CalledProcessError"
    /\ Last(events) = "mtool_exit_nonzero"
    /\ Len(self.dataloader) >= 1

C7_FlagRestoredOnReturn == (kind = "amr" /\ pc = "returned") => env = "true"

\* The stages of UccaEvaluator.run_eval after generation, in order.
StageOrder ==
    <<"save_raw", "delinearize_gold", "delinearize_pred", "reformat_gold", "reformat_pred",
      "write_gold", "write_pred", "mtool_start">>
ExpectedOrder(N) == [k \in 1..N |-> "generate"] \o StageOrder
IsPrefix(a, b) == Len(a) <= Len(b) /\ \A k \in 1..Len(a) : a[k] = b[k]
\* The events of the run without the exit of mtool or the failure that ended it.
StagesDone ==
    IF events # <<>> /\ Last(events) \notin ({"generate"} \cup {StageOrder[k] : k \in 1..8})
    THEN SubSeq(events, 1, Len(events) - 1) ELSE events

\* C8: a run_eval of UccaEvaluator goes through its stages in the one order:
\* every batch generated, the raw predictions saved, gold then predictions
\* delinearized, gold then predictions reformatted, the gold then the prediction
\* MRP file written, mtool started; the raw prediction file holds all
\* predictions once saved; mtool starts at most once and only when both MRP
\* files hold what this run computed.
C8_StageOrder ==
    kind = "ucca" =>
        /\ IsPrefix(StagesDone, ExpectedOrder(Len(self.dataloader)))
        /\ Happened("save_raw") => fs[RawPredFile(self.n_step[1])] = File(AllPredictions)
        /\ Count(events, "mtool_start") <= 1
        /\ Happened("mtool_start") =>
              /\ fs[GoldMrp] = File(MrpLines(reformat_to_mrp(
                    delinearize_to_tree(self, self.gold_graphs, self.sents), self.sents)))
              /\ fs[PredMrp] = File(MrpLines(reformat_to_mrp(
                    delinearize_to_tree(self, AllPredictions, self.sents), self.sents)))

\* mtool is running after two batches went through every stage.
C8_Witness ==
    /\ kind = "ucca"
    /\ pc = "ucca_subproc"
    /\ Len(self.dataloader) = 2
    /\ Len(self.sents) = 2

\* C9 as stated: with m predictions and n sentences, m # n, the prediction MRP
\* file holds min(m, n) records and differs in record count from the gold file.
C9_Original ==
    (kind = "ucca" /\ Happened("write_pred")
        /\ Len(Flatten(self.dataloader)) # Len(self.sents)) =>
        /\ Len(fs[PredMrp].lines) = Min(Len(Flatten(self.dataloader)), Len(self.sents))
        /\ Len(fs[PredMrp].lines) # Len(fs[GoldMrp].lines)

\* C9 amended: with m predictions and n sentences, m # n, nothing but a file
\* or scorer failure ends run_eval; delinearize_to_tree and reformat_to_mrp
\* yield min(m, n) records; the prediction MRP file holds min(m, n) records and
\* the gold file n, so they differ in record count exactly when m < n; and the
\* step after the files are written starts mtool.
C9_MismatchUndetected ==
    /\ [](LET m == Len(Flatten(self.dataloader))
              n == Len(self.sents)
          IN  (kind = "ucca" /\ m # n) =>
                 /\ pc = "raised" => Last(events) \in FailureEvents
                 /\ (InRun /\ Happened("delinearize_pred")) => Len(loc.pred_trees) = Min(m, n)
                 /\ (InRun /\ Happened("reformat_pred")) => Len(loc.pred_mrp_format) = Min(m, n)
                 /\ Happened("write_pred") =>
                       /\ Len(fs[PredMrp].lines) = Min(m, n)
                       /\ Len(fs[GoldMrp].lines) = n
                       /\ (Len(fs[PredMrp].lines) # Len(fs[GoldMrp].lines)) <=> (m < n))
    /\ [][pc = "ucca_score" => (pc' = "ucca_subproc" /\ Last(events') = "mtool_start")]_vars

\* mtool is running on files of equal record count though the model yielded
\* more predictions than there are sentences.
C9_Witness ==
    /\ kind = "ucca"
    /\ pc = "ucca_subproc"
    /\ Len(self.sents) >= 1
    /\ Len(eval_predictions) > Len(self.sents)
    /\ Len(fs[PredMrp].lines) = Len(fs[GoldMrp].lines)

\* The report mtool printed, from the event that recorded it.
ReportOf(event) == CHOOSE o \in MtoolOutputs : o.event = event

\* C10: a step changes the UccaEvaluator object only by run_eval storing its
\* argument in n_step, every other field staying as constructed; and the value a
\* run_eval returns is determined by the model's outputs and mtool's report.
C10_OnlyNStepChanges ==
    /\ [][self' # self =>
             /\ pc \in {"idle", "returned"}
             /\ pc' = "ucca_gen"
             /\ \E n \in StepArgs : self' = [self EXCEPT !.n_step = <<n>>]]_vars
    /\ []((kind = "ucca" /\ pc = "returned") =>
             ret = << <<MeanLossOf(self.dataloader), Round3(ReportOf(Last(events)).f)>> >>)

\* A second run_eval has returned; a prediction that does not parse got the
\* toy tree in it.
C10_Witness ==
    /\ kind = "ucca"
    /\ calls = 2
    /\ pc = "returned"
    /\ \E k \in 1..Min(Len(AllPredictions), Len(self.sents)) : ~WellFormed(AllPredictions[k])

====
